---- MODULE Spec2Model ----
(***************************************************************************)
(* A model of kreuzberg/_ocr/_easyocr.py: EasyOCRBackend.                  *)
(*                                                                         *)
(*   Spec        _process_easyocr_result, the pure reconstruction of text  *)
(*               from the detection list easyocr's readtext returns.       *)
(*   SpecReader  _init_easyocr / process_image / process_file as asyncio   *)
(*               tasks sharing the class variable EasyOCRBackend._reader.  *)
(*                                                                         *)
(* Representation.                                                         *)
(*   a str is a sequence of one-character strings ("" is << >>);           *)
(*   a point is <<x, y>>, a box a sequence of points;                      *)
(*   a detection is the Python tuple it is: <<text, confidence>> or        *)
(*   <<box, text, confidence>>, so len(item) is Len(item) and x[0] is      *)
(*   item[1];  a confidence is given in hundredths (0.9 is 90);            *)
(*   sum(point[1] for point in box) / 4 is kept as its numerator           *)
(*   (the quotient times 4), so that the comparison with the threshold is  *)
(*   exact for every box:  abs(a/4 - b/4) > 20  <=>  abs(a - b) > 4 * 20.  *)
(***************************************************************************)
EXTENDS Integers, Sequences, FiniteSets, TLC

VARIABLES
    result,          \* _process_easyocr_result: the argument `result`
    image,           \* _process_easyocr_result: the argument `image` (width, height)
    pc,              \* "call" before _process_easyocr_result ran, "done" after
    sorted_results,  \* local of the geometric path (line 249)
    line_groups,     \* local of the geometric path (lines 250-269)
    text_content,    \* local: the text handed to normalize_spaces
    confidence,      \* locals confidence_sum / confidence_count
    ret,             \* what the call returned or raised
    reader,          \* EasyOCRBackend._reader: << >> is None, <<n>> the n-th Reader built
    created,         \* number of easyocr.Reader objects constructed so far
    task             \* per asyncio task: entry point and position

vars == <<result, image, pc, sorted_results, line_groups, text_content,
          confidence, ret, reader, created, task>>

callVars == <<result, image, pc, sorted_results, line_groups, text_content,
              confidence, ret>>

readerVars == <<reader, created, task>>

-----------------------------------------------------------------------------
(* Bounds and program constants *)

MaxDetections == 3

NumTasks == 3

expected_tuple_length == 2

line_height_threshold == 20

PLAIN_TEXT_MIME_TYPE == "text/plain"

None == << >>

Abs(n) == IF n < 0 THEN -n ELSE n

-----------------------------------------------------------------------------
(* Python values *)

\* ExtractionResult(content=..., mime_type=..., metadata=..., chunks=[])
ExtractionResult(content, metadata) ==
    [content |-> content, mime_type |-> PLAIN_TEXT_MIME_TYPE,
     metadata |-> metadata, chunks |-> << >>]

\* Metadata(width=image.width, height=image.height)
MetadataSwapped(img) == [width |-> img.height, height |-> img.width]

Metadata(img) == [width |-> img.width, height |-> img.height]

\* a call either returns a value or raises; never both
Return(value) == [raised |-> "None", value |-> <<value>>]

Raise(exc) == [raised |-> exc, value |-> << >>]

\* normalize_spaces (kreuzberg._utils._string, not among the sources): every
\* maximal run of space / tab becomes one space, newlines stay, a space before a
\* newline or at the end of the string is dropped.
IsBlank(c) == c \in {" ", "\t"}

RECURSIVE CollapseBlanks(_)
CollapseBlanks(s) ==
    IF Len(s) = 0 THEN << >>
    ELSE IF IsBlank(Head(s))
         THEN IF Len(s) > 1 /\ IsBlank(s[2])
              THEN CollapseBlanks(Tail(s))
              ELSE <<" ">> \o CollapseBlanks(Tail(s))
         ELSE <<Head(s)>> \o CollapseBlanks(Tail(s))

RECURSIVE TrimBeforeNewline(_)
TrimBeforeNewline(s) ==
    IF Len(s) = 0 THEN << >>
    ELSE IF Head(s) = " " /\ (Len(s) = 1 \/ s[2] = "\n")
         THEN TrimBeforeNewline(Tail(s))
         ELSE <<Head(s)>> \o TrimBeforeNewline(Tail(s))

normalize_spaces(text) == TrimBeforeNewline(CollapseBlanks(text))

-----------------------------------------------------------------------------
(* sorted(iterable, key=...): the keys are computed first, one per element in *)
(* order, then the elements are ordered by key, equal keys keeping their      *)
(* order (the sort is stable).                                                *)

RECURSIVE InsertStable(_, _)
InsertStable(s, kx) ==
    IF Len(s) = 0 THEN <<kx>>
    ELSE IF kx[1] < Head(s)[1]
         THEN <<kx>> \o s
         ELSE <<Head(s)>> \o InsertStable(Tail(s), kx)

RECURSIVE SortDecorated(_)
SortDecorated(d) ==
    IF Len(d) = 0 THEN << >>
    ELSE InsertStable(SortDecorated(SubSeq(d, 1, Len(d) - 1)), d[Len(d)])

\* items ordered by keys[i], the key of items[i]
sorted(items, keys) ==
    LET d == SortDecorated([i \in 1..Len(items) |-> <<keys[i], items[i]>>])
    IN  [i \in 1..Len(d) |-> d[i][2]]

-----------------------------------------------------------------------------
(* _process_easyocr_result *)

\* all(len(item) == expected_tuple_length for item in result)
AllPreMerged(res) == \A i \in 1..Len(res) : Len(res[i]) = expected_tuple_length

\* lambda x: x[0][0][1] + x[0][2][1] raises IndexError when x[0] is a str (a
\* 2-tuple's text: a character has no index 1) or a box of fewer than 3 points
KeyRaises(x) == Len(x) = expected_tuple_length \/ Len(x[1]) < 3

\* lambda x: x[0][0][1] + x[0][2][1]
VerticalKey(x) == x[1][1][2] + x[1][3][2]

\* lambda x: x[0][0][0]
LeftKey(x) == x[1][1][1]

\* sum(point[1] for point in box), the numerator of y_center (line 257)
RECURSIVE SumY(_)
SumY(box) == IF Len(box) = 0 THEN 0 ELSE Head(box)[2] + SumY(Tail(box))

y_center_times4(box) == SumY(box)

\* prev_y_center is None or abs(y_center - prev_y_center) > line_height_threshold
StartsNewLine(prev_y_center, y_center) ==
    \/ prev_y_center = None
    \/ Abs(y_center - prev_y_center[1]) > 4 * line_height_threshold

\* line 266, prev_y_center = y_center; new_line tells which branch of line 259 ran
AnchoredPrevYCenter(new_line, prev_y_center, y_center) ==
    IF new_line THEN <<y_center>> ELSE prev_y_center

NextPrevYCenter(new_line, prev_y_center, y_center) == <<y_center>>

\* lines 260-261 and 268-269: if current_line: line_groups.append(current_line)
Flush(groups, current_line) ==
    IF Len(current_line) > 0 THEN Append(groups, current_line) ELSE groups

\* the loop of lines 255-266 followed by lines 268-269
RECURSIVE Sweep(_, _, _, _)
Sweep(items, groups, current_line, prev_y_center) ==
    IF Len(items) = 0 THEN Flush(groups, current_line)
    ELSE LET item == Head(items)
             y_center == y_center_times4(item[1])
             new_line == StartsNewLine(prev_y_center, y_center)
         IN  IF new_line
             THEN Sweep(Tail(items), Flush(groups, current_line), <<item>>,
                        NextPrevYCenter(new_line, prev_y_center, y_center))
             ELSE Sweep(Tail(items), groups, Append(current_line, item),
                        NextPrevYCenter(new_line, prev_y_center, y_center))

\* line 249
UnsortedResults(res) == res

DescendingResults(res) == sorted(res, [i \in 1..Len(res) |-> 0 - VerticalKey(res[i])])

SortedResults(res) == sorted(res, [i \in 1..Len(res) |-> VerticalKey(res[i])])

\* lines 250-269
LineGroups(sorted_res) == Sweep(sorted_res, << >>, << >>, None)

\* line 276
UnsortedLine(line) == line

LineSorted(line) == sorted(line, [i \in 1..Len(line) |-> LeftKey(line[i])])

\* lines 278-283: the texts of one line, each non-empty one followed by a space
RECURSIVE LineText(_)
LineText(items) ==
    IF Len(items) = 0 THEN << >>
    ELSE LET text == Head(items)[2]
         IN  (IF Len(text) > 0 THEN text \o <<" ">> ELSE << >>)
             \o LineText(Tail(items))

\* lines 275-285
RECURSIVE ComposeText(_)
ComposeText(groups) ==
    IF Len(groups) = 0 THEN << >>
    ELSE LineText(LineSorted(Head(groups))) \o <<"\n">> \o ComposeText(Tail(groups))

\* line 236: text_content += text + "\n"
PrependPreMerged(content, text) == text \o <<"\n">> \o content

AppendPreMerged(content, text) == content \o text \o <<"\n">>

\* lines 234-238
RECURSIVE PreMergedText(_, _)
PreMergedText(res, content) ==
    IF Len(res) = 0 THEN content
    ELSE LET text == Head(res)[1]
         IN  PreMergedText(Tail(res),
                 IF Len(text) > 0 THEN AppendPreMerged(content, text) ELSE content)

\* confidence_sum and confidence_count over the items with a non-empty text;
\* at is the index of the text in the tuple.  Neither is read afterwards.
RECURSIVE ConfidenceTotals(_, _)
ConfidenceTotals(items, at) ==
    IF Len(items) = 0 THEN [sum |-> 0, count |-> 0]
    ELSE LET rest == ConfidenceTotals(Tail(items), at)
             item == Head(items)
         IN  IF Len(item[at]) > 0
             THEN [sum |-> rest.sum + item[at + 1], count |-> rest.count + 1]
             ELSE rest

RECURSIVE Flatten(_)
Flatten(seqs) == IF Len(seqs) = 0 THEN << >> ELSE Head(seqs) \o Flatten(Tail(seqs))

\* the value of the geometric path (lines 249-294) when no key raises
GeometricResult(res, img) ==
    Return(ExtractionResult(
        normalize_spaces(ComposeText(LineGroups(SortedResults(res)))), Metadata(img)))

\* a variant that drops the items it cannot sort instead of raising
SalvagingGeometricOutcome(res, img) ==
    GeometricResult(SelectSeq(res, LAMBDA x : ~KeyRaises(x)), img)

\* lines 249-294: sorted() raises before anything else is built
GeometricOutcome(res, img) ==
    IF \E i \in 1..Len(res) : KeyRaises(res[i])
    THEN Raise("IndexError")
    ELSE GeometricResult(res, img)

\* lines 229-247
PreMergedOutcome(res, img) ==
    Return(ExtractionResult(normalize_spaces(PreMergedText(res, << >>)), Metadata(img)))

\* lines 219-225
EmptyOutcome(img) == Return(ExtractionResult(<< >>, Metadata(img)))

\* _process_easyocr_result(result, image) as a function of its arguments
ProcessEasyocrResult(res, img) ==
    IF Len(res) = 0 THEN EmptyOutcome(img)
    ELSE IF AllPreMerged(res) THEN PreMergedOutcome(res, img)
    ELSE GeometricOutcome(res, img)

-----------------------------------------------------------------------------
(* The inputs: what readtext may hand over *)

Rect(x, c) == << <<x, c - 5>>, <<x + 30, c - 5>>, <<x + 30, c + 5>>, <<x, c + 5>> >>

\* a quadrilateral whose corners 0 and 2 do not average to the mean of all four
Trapezoid(x, c) == << <<x, c - 5>>, <<x + 30, c - 5>>, <<x + 30, c + 5>>, <<x, c + 85>> >>

LeftXs == {10, 50}

Centers == {0, 15, 30}

Quads == {Rect(x, c) : x \in LeftXs, c \in Centers}
         \cup {Rect(90, 15)}
         \cup {Trapezoid(10, 15)}

Label == <<"B", "A", "C", "D", "E">>

\* a list of geometric detections; the i-th one reads Label[i] or nothing
GeometricList(q, e) ==
    [i \in 1..Len(q) |-> <<q[i], IF e[i] THEN << >> ELSE <<Label[i]>>, 90>>]

Hello == <<"H", "e", "l", "l", "o">>

World == <<"W", "o", "r", "l", "d">>

TwoPoints == << <<10, 0>>, <<40, 8>> >>

ThreePoints == << <<10, 0>>, <<40, 0>>, <<40, 8>> >>

FivePoints == << <<10, 0>>, <<40, 0>>, <<40, 8>>, <<10, 8>>, <<5, 4>> >>

\* 2-tuples, one sound triple, and triples whose box is not four points
ShapeItems ==
    { <<Hello, 90>>, <<World, 80>>, << << >>, 70 >>,
      <<Rect(10, 0), <<"A">>, 90>>,
      <<TwoPoints, <<"B">>, 90>>, <<ThreePoints, <<"C">>, 90>>,
      <<FivePoints, <<"D">>, 90>> }

Images == { [width |-> 800, height |-> 600], [width |-> 640, height |-> 480] }

-----------------------------------------------------------------------------
(* Spec: one call of _process_easyocr_result *)

InitReader ==
    /\ reader = None
    /\ created = 0
    /\ task = [t \in 1..NumTasks |-> [entry |-> "none", stage |-> "none", at |-> "idle", raised |-> "None"]]

InitCall ==
    /\ \E n \in 0..MaxDetections :
           \/ \E q \in [1..n -> Quads], e \in [1..n -> BOOLEAN] :
                  result = GeometricList(q, e)
           \/ result \in [1..n -> ShapeItems]
    /\ image \in Images
    /\ pc = "call"
    /\ sorted_results = << >>
    /\ line_groups = << >>
    /\ text_content = << >>
    /\ confidence = [sum |-> 0, count |-> 0]
    /\ ret = Raise("pending")

Init == InitCall /\ InitReader

\* lines 219-225
ReturnEmpty ==
    /\ pc = "call"
    /\ Len(result) = 0
    /\ pc' = "done"
    /\ ret' = EmptyOutcome(image)
    /\ UNCHANGED <<result, image, sorted_results, line_groups, text_content, confidence>>

\* lines 227-247
PreMergedPath ==
    /\ pc = "call"
    /\ Len(result) > 0
    /\ AllPreMerged(result)
    /\ pc' = "done"
    /\ text_content' = PreMergedText(result, << >>)
    /\ confidence' = ConfidenceTotals(result, 1)
    /\ ret' = PreMergedOutcome(result, image)
    /\ UNCHANGED <<result, image, sorted_results, line_groups>>

\* lines 249-294, every key computable
GeometricPath ==
    /\ pc = "call"
    /\ Len(result) > 0
    /\ ~AllPreMerged(result)
    /\ \A i \in 1..Len(result) : ~KeyRaises(result[i])
    /\ pc' = "done"
    /\ sorted_results' = SortedResults(result)
    /\ line_groups' = LineGroups(SortedResults(result))
    /\ text_content' = ComposeText(LineGroups(SortedResults(result)))
    /\ confidence' = ConfidenceTotals(result, 2)
    /\ ret' = GeometricOutcome(result, image)
    /\ UNCHANGED <<result, image>>

\* line 249 raising: no local after it is assigned
GeometricPathRaises ==
    /\ pc = "call"
    /\ Len(result) > 0
    /\ ~AllPreMerged(result)
    /\ \E i \in 1..Len(result) : KeyRaises(result[i])
    /\ pc' = "done"
    /\ ret' = GeometricOutcome(result, image)
    /\ UNCHANGED <<result, image, sorted_results, line_groups, text_content, confidence>>

Next ==
    \/ ReturnEmpty /\ UNCHANGED readerVars
    \/ PreMergedPath /\ UNCHANGED readerVars
    \/ GeometricPath /\ UNCHANGED readerVars
    \/ GeometricPathRaises /\ UNCHANGED readerVars

Spec == Init /\ [][Next]_vars

-----------------------------------------------------------------------------
(* SpecReader: NumTasks asyncio tasks, each one call of process_image or     *)
(* process_file.  A task runs without interruption from one await that       *)
(* suspends it to the next: run_sync hands the work to a worker thread and   *)
(* the event loop runs other tasks until the thread is finished.             *)
(*   at = "init"      about to run _init_easyocr (lines 321-345, up to the   *)
(*                    await of line 340)                                     *)
(*   at = "building"  suspended in line 340, easyocr.Reader running          *)
(*   at = "open"      suspended in line 203, Image.open running              *)
(*   at = "readtext"  suspended in line 177, readtext running                *)

Tasks == 1..NumTasks

\* where the caller of _init_easyocr goes on: line 203 or line 175
AfterInit(stage) == IF stage = "process_file" THEN "open" ELSE "readtext"

\* a caller awaits process_image (line 160) or process_file (line 188)
Call(t, entry) ==
    /\ task[t].at = "idle"
    /\ task' = [task EXCEPT ![t] = [entry |-> entry, stage |-> entry, at |-> "init", raised |-> "None"]]
    /\ UNCHANGED <<reader, created>>

\* lines 321-322: if cls._reader is not None: return
InitReturnsEarly(t) ==
    /\ task[t].at = "init"
    /\ reader # None
    /\ task' = [task EXCEPT ![t].at = AfterInit(task[t].stage)]
    /\ UNCHANGED <<reader, created>>

\* lines 321-340: _reader is None, the Reader is handed to a worker thread
InitStartsReader(t) ==
    /\ task[t].at = "init"
    /\ reader = None
    /\ task' = [task EXCEPT ![t].at = "building"]
    /\ UNCHANGED <<reader, created>>

\* lines 324-331: _validate_language_code raises before any await
InitRaises(t) ==
    /\ task[t].at = "init"
    /\ reader = None
    /\ task' = [task EXCEPT ![t].at = "failed", ![t].raised = "ValidationError"]
    /\ UNCHANGED <<reader, created>>

\* line 340: the thread built a Reader, the task resumes and assigns it
ReaderBuilt(t) ==
    /\ task[t].at = "building"
    /\ created' = created + 1
    /\ reader' = <<created + 1>>
    /\ task' = [task EXCEPT ![t].at = AfterInit(task[t].stage)]

\* lines 346-347: easyocr.Reader raised
ReaderFails(t) ==
    /\ task[t].at = "building"
    /\ task' = [task EXCEPT ![t].at = "failed", ![t].raised = "OCRError"]
    /\ UNCHANGED <<reader, created>>

\* lines 203-204: the image is open, process_image is awaited
ImageOpened(t) ==
    /\ task[t].at = "open"
    /\ task' = [task EXCEPT ![t].stage = "process_image", ![t].at = "init"]
    /\ UNCHANGED <<reader, created>>

\* lines 205-206
ImageOpenFails(t) ==
    /\ task[t].at = "open"
    /\ task' = [task EXCEPT ![t].at = "failed", ![t].raised = "OCRError"]
    /\ UNCHANGED <<reader, created>>

\* lines 177-184: readtext returned and the result was processed
ReadtextReturns(t) ==
    /\ task[t].at = "readtext"
    /\ task' = [task EXCEPT ![t].at = "done"]
    /\ UNCHANGED <<reader, created>>

\* lines 185-186
ReadtextFails(t) ==
    /\ task[t].at = "readtext"
    /\ task' = [task EXCEPT ![t].at = "failed", ![t].raised = "OCRError"]
    /\ UNCHANGED <<reader, created>>

InitIdleCall ==
    /\ result = << >>
    /\ image = [width |-> 800, height |-> 600]
    /\ pc = "call"
    /\ sorted_results = << >>
    /\ line_groups = << >>
    /\ text_content = << >>
    /\ confidence = [sum |-> 0, count |-> 0]
    /\ ret = Raise("pending")

InitTasks == InitIdleCall /\ InitReader

NextReader ==
    \/ \E t \in Tasks : Call(t, "process_image") /\ UNCHANGED callVars
    \/ \E t \in Tasks : Call(t, "process_file") /\ UNCHANGED callVars
    \/ \E t \in Tasks : InitReturnsEarly(t) /\ UNCHANGED callVars
    \/ \E t \in Tasks : InitStartsReader(t) /\ UNCHANGED callVars
    \/ \E t \in Tasks : InitRaises(t) /\ UNCHANGED callVars
    \/ \E t \in Tasks : ReaderBuilt(t) /\ UNCHANGED callVars
    \/ \E t \in Tasks : ReaderFails(t) /\ UNCHANGED callVars
    \/ \E t \in Tasks : ImageOpened(t) /\ UNCHANGED callVars
    \/ \E t \in Tasks : ImageOpenFails(t) /\ UNCHANGED callVars
    \/ \E t \in Tasks : ReadtextReturns(t) /\ UNCHANGED callVars
    \/ \E t \in Tasks : ReadtextFails(t) /\ UNCHANGED callVars

SpecReader == InitTasks /\ [][NextReader]_vars

-----------------------------------------------------------------------------
(* Properties of _process_easyocr_result, checked under Spec *)

\* the call took the geometric path and returned
GeometricDone ==
    /\ pc = "done"
    /\ Len(result) > 0
    /\ ~AllPreMerged(result)
    /\ ret.raised = "None"

\* the number of the line that holds the i-th detection of the sweep
RECURSIVE LineOf(_, _)
LineOf(groups, i) ==
    IF i <= Len(Head(groups)) THEN 1
    ELSE 1 + LineOf(Tail(groups), i - Len(Head(groups)))

\* four times the vertical center the sweep computed for a detection
Center4(item) == y_center_times4(item[1])

Apart(a, b) == Abs(Center4(a) - Center4(b)) > 4 * line_height_threshold

NonEmptyTexts(texts) == SelectSeq(texts, LAMBDA t : Len(t) > 0)

\* each text of the sequence followed by sep, all in one string
Joined(texts, sep) == Flatten([k \in 1..Len(texts) |-> texts[k] \o <<sep>>])

\* the lines of a text, cut at its newlines
RECURSIVE SplitLines(_, _)
SplitLines(s, cur) ==
    IF Len(s) = 0 THEN (IF Len(cur) > 0 THEN <<cur>> ELSE << >>)
    ELSE IF Head(s) = "\n" THEN <<cur>> \o SplitLines(Tail(s), << >>)
         ELSE SplitLines(Tail(s), Append(cur, Head(s)))

Permuted(res, p) == [i \in 1..Len(res) |-> res[p[i]]]

AllGeometric(res) == \A i \in 1..Len(res) : Len(res[i]) = 3 /\ ~KeyRaises(res[i])

DistinctKeys(res) ==
    \A i, j \in 1..Len(res) : i # j => VerticalKey(res[i]) # VerticalKey(res[j])

\* C2: when all detections are geometric and no two have the same vertical sort
\* key, every order of the same detections gives the text and the result this
\* call built.
C2_OrderIndependent ==
    (pc = "done" /\ Len(result) > 0 /\ AllGeometric(result) /\ DistinctKeys(result)) =>
        \A p \in Permutations(1..Len(result)) :
            /\ ComposeText(LineGroups(SortedResults(Permuted(result, p)))) = text_content
            /\ ProcessEasyocrResult(Permuted(result, p), image) = ret

\* three detections with distinct keys and the same left edge, handed over
\* bottom-up as B, A, C, were read top-down as C, A, B
C2_Witness ==
    /\ GeometricDone
    /\ Len(result) = 3
    /\ DistinctKeys(result)
    /\ VerticalKey(result[1]) > VerticalKey(result[2])
    /\ VerticalKey(result[2]) > VerticalKey(result[3])
    /\ \A i \in 1..3 : LeftKey(result[i]) = 10
    /\ text_content = <<"C", " ", "A", " ", "B", " ", "\n">>

\* the place of the k-th member of a line in left-to-right order, ties in the
\* order the line holds them
Rank(line, k) ==
    1 + Cardinality({j \in 1..Len(line) :
                        \/ LeftKey(line[j]) < LeftKey(line[k])
                        \/ LeftKey(line[j]) = LeftKey(line[k]) /\ j < k})

LeftToRight(line) ==
    [r \in 1..Len(line) |-> line[CHOOSE k \in 1..Len(line) : Rank(line, k) = r]]

\* the text of one line: its non-empty texts left to right, a space after each
ExpectedLine(line) ==
    LET ordered == LeftToRight(line)
    IN  Joined(NonEmptyTexts([r \in 1..Len(ordered) |-> ordered[r][2]]), " ")

\* C3: the text built is the lines in sweep order (top to bottom by sort key),
\* each the non-empty texts of its members by ascending left-edge x, ties in
\* prior order; and two detections whose vertical centers (as the sweep computes
\* them) differ by more than 20, with no detection between them in the sweep or
\* none with a center between theirs, are in different lines.
C3_ReadingOrder ==
    GeometricDone =>
        /\ text_content =
               Flatten([g \in 1..Len(line_groups) |->
                           ExpectedLine(line_groups[g]) \o <<"\n">>])
        /\ \A i, j \in 1..Len(sorted_results) :
               i < j => VerticalKey(sorted_results[i]) <= VerticalKey(sorted_results[j])
        /\ \A i, j \in 1..Len(sorted_results) :
               (/\ i < j
                /\ Apart(sorted_results[i], sorted_results[j])
                /\ \/ j = i + 1
                   \/ ~\E k \in 1..Len(sorted_results) :
                          \/ /\ Center4(sorted_results[i]) < Center4(sorted_results[k])
                             /\ Center4(sorted_results[k]) < Center4(sorted_results[j])
                          \/ /\ Center4(sorted_results[j]) < Center4(sorted_results[k])
                             /\ Center4(sorted_results[k]) < Center4(sorted_results[i]))
               => LineOf(line_groups, i) # LineOf(line_groups, j)

\* texts B, A, C at left-x 50, 10, 90 within one line came out as A B C
C3_Witness ==
    /\ GeometricDone
    /\ Len(result) = 3
    /\ [i \in 1..3 |-> LeftKey(result[i])] = <<50, 10, 90>>
    /\ [i \in 1..3 |-> result[i][2]] = << <<"B">>, <<"A">>, <<"C">> >>
    /\ Len(line_groups) = 1
    /\ text_content = <<"A", " ", "B", " ", "C", " ", "\n">>

\* C4: an empty list returns (does not raise) a result with the empty text, and
\* every result returned carries the page's width and height.
C4_PageDimensions ==
    /\ (pc = "done" /\ Len(result) = 0) =>
           /\ ret.raised = "None"
           /\ Len(ret.value) = 1
           /\ ret.value[1].content = << >>
    /\ (pc = "done" /\ ret.raised = "None") =>
           /\ Len(ret.value) = 1
           /\ ret.value[1].metadata.width = image.width
           /\ ret.value[1].metadata.height = image.height

\* no detections on an 800 x 600 page: empty text, width 800, height 600
C4_Witness ==
    /\ pc = "done"
    /\ Len(result) = 0
    /\ image = [width |-> 800, height |-> 600]
    /\ ret.raised = "None"
    /\ ret.value[1].content = << >>
    /\ ret.value[1].metadata = [width |-> 800, height |-> 600]

\* C5: a non-empty list of 2-tuples returns, and the text handed to the
\* normalization is the non-empty texts in input order, a newline after each;
\* nothing is sorted or grouped.
C5_PreMergedInOrder ==
    (pc = "done" /\ Len(result) > 0 /\ AllPreMerged(result)) =>
        /\ ret.raised = "None"
        /\ text_content =
               Joined(NonEmptyTexts([i \in 1..Len(result) |-> result[i][1]]), "\n")
        /\ sorted_results = << >>
        /\ line_groups = << >>

\* (Hello, 0.9), (World, 0.8) gave Hello, newline, World, newline
C5_Witness ==
    /\ pc = "done"
    /\ result = << <<Hello, 90>>, <<World, 80>> >>
    /\ text_content = Hello \o <<"\n">> \o World \o <<"\n">>
    /\ ret.raised = "None"

\* the lines of a text that hold anything
TextLines(text) == SelectSeq(SplitLines(text, << >>), LAMBDA l : Len(l) > 0)

WithoutEmptyTexts(res) == SelectSeq(res, LAMBDA x : Len(x[2]) > 0)

\* C6 as stated: taking the empty-text detections out of the list leaves the
\* lines of the remaining texts as they were.
C6_EmptyTextsDoNotRegroup ==
    (GeometricDone /\ Len(WithoutEmptyTexts(result)) > 0) =>
        TextLines(ComposeText(LineGroups(SortedResults(WithoutEmptyTexts(result)))))
            = TextLines(text_content)

\* C7 as stated: a geometric detection whose box is not four points makes the
\* call raise.
C7_MalformedBoxRaises ==
    (pc = "done" /\ \E i \in 1..Len(result) :
                        Len(result[i]) = 3 /\ Len(result[i][1]) # 4) =>
        ret.raised # "None"

IsMixed(res) ==
    /\ \E i \in 1..Len(res) : Len(res[i]) = 2
    /\ \E i \in 1..Len(res) : Len(res[i]) = 3

\* C8: a list that mixes 2-tuples and 3-tuples raises; nothing is returned and
\* no text was built on either path.
C8_MixedListRaises ==
    (pc = "done" /\ IsMixed(result)) =>
        /\ ret.raised # "None"
        /\ ret.value = << >>
        /\ text_content = << >>

\* a sound triple followed by a 2-tuple ended in IndexError
C8_Witness ==
    /\ pc = "done"
    /\ IsMixed(result)
    /\ Len(result) = 2
    /\ Len(result[1]) = 3
    /\ Len(result[1][1]) = 4
    /\ ret = Raise("IndexError")

\* y of corner 0 + y of corner 2 = y of corner 1 + y of corner 3
Balanced(item) ==
    /\ Len(item[1]) = 4
    /\ item[1][1][2] + item[1][3][2] = item[1][2][2] + item[1][4][2]

SweepAscends ==
    \A i \in 1..(Len(sorted_results) - 1) :
        Center4(sorted_results[i]) <= Center4(sorted_results[i + 1])

\* C9 as stated: the center the sweep compares is (y0 + y2) / 2, the value
\* sorted by, for every detection, and the sweep visits the centers in
\* non-decreasing order.
C9_SweepUsesSortKey ==
    GeometricDone =>
        /\ \A i \in 1..Len(sorted_results) :
               Center4(sorted_results[i]) = 2 * VerticalKey(sorted_results[i])
        /\ SweepAscends

\* C9 as amended: the list is sorted by y0 + y2; the center the sweep compares
\* is the mean of all corner y-values, which is (y0 + y2) / 2 for a
\* quadrilateral with y0 + y2 = y1 + y3; when every box is such a quadrilateral
\* the sweep visits the centers in non-decreasing order.
C9_SweepAscendsWhenBalanced ==
    GeometricDone =>
        /\ \A i \in 1..(Len(sorted_results) - 1) :
               VerticalKey(sorted_results[i]) <= VerticalKey(sorted_results[i + 1])
        /\ \A i \in 1..Len(sorted_results) :
               Balanced(sorted_results[i]) =>
                   Center4(sorted_results[i]) = 2 * VerticalKey(sorted_results[i])
        /\ (\A i \in 1..Len(sorted_results) : Balanced(sorted_results[i])) => SweepAscends

\* three balanced boxes, handed over out of order, were swept in ascending order
C9_Witness ==
    /\ GeometricDone
    /\ Len(result) = 3
    /\ \A i \in 1..3 : Balanced(result[i])
    /\ VerticalKey(result[1]) > VerticalKey(result[3])
    /\ Center4(sorted_results[1]) < Center4(sorted_results[3])
    /\ SweepAscends

-----------------------------------------------------------------------------
(* Properties of the cached reader, checked under SpecReader *)

\* C10 as stated: whatever the interleaving of the calls, easyocr.Reader is
\* constructed at most once.
C10_ReaderBuiltAtMostOnce == created <= 1

\* C10, second half: once _reader is set no later call replaces it.
C10_ReaderNeverReplaced == [][reader # None => reader' = reader]_vars

====
